---- MODULE Spec2Model ----
(***************************************************************************)
(* Model of the weather MCP server (src/main.py): module start-up, the     *)
(* three tool handlers, the Fetcher make_openweather_request and the two   *)
(* text formatters.                                                        *)
(*                                                                         *)
(* JSON values are tagged: [t |-> "dict", v |-> f] where f is a function   *)
(* whose DOMAIN is the set of keys present, [t |-> "list", v |-> seq] and  *)
(* [t |-> "null"].  Below the top level, dicts are plain functions, lists  *)
(* plain sequences and leaves strings; a JSON number is the string of its  *)
(* decimal text and JSON null is the leaf JNull.  A Python str that the    *)
(* code splits at ' ' is the sequence of its space-separated parts.        *)
(***************************************************************************)
EXTENDS Integers, Sequences, FiniteSets, TLC

VARIABLES
    bootpc,               \* position in the module body of main.py
    OPENWEATHER_API_KEY,  \* the module global of line 22
    tools,                \* tools registered with the FastMCP instance
    pc,                   \* per invocation: position of its coroutine
    call,                 \* per invocation: the tool and its arguments
    params,               \* the params dict objects, by reference
    conn,                 \* per invocation: its httpx.AsyncClient
    gets,                 \* per invocation: GETs issued so far
    sent,                 \* per invocation: the request last issued
    resp,                 \* per invocation: how its GET ended
    ret,                  \* per invocation: what the Fetcher returns
    log,                  \* per invocation: lines the Fetcher printed
    result,               \* per invocation: what the handler returns
    fmtCalls,             \* per invocation: calls of a formatter
    fin,                  \* formatter harness: the call made
    fout                  \* formatter harness: its outcome

vars == <<bootpc, OPENWEATHER_API_KEY, tools, pc, call, params, conn, gets,
          sent, resp, ret, log, result, fmtCalls, fin, fout>>

serverVars == <<bootpc, OPENWEATHER_API_KEY, tools, pc, call, params, conn,
                gets, sent, resp, ret, log, result, fmtCalls>>

harnessVars == <<fin, fout>>

-----------------------------------------------------------------------------
(* Bounds of the model *)

\* invocations that may be in flight at once
MaxInFlight == 2
\* longest 'list' of a generated forecast payload
MaxEntries == 17
\* longest forecast 'list' generated with entries in arbitrary order
MaxArbitrary == 3
\* most fields damaged at once in a generated current-weather payload
MaxDefects == 2

(* Program constants *)

\* data['list'][:15]
ForecastCap == 15
\* forecasts[:3]
PerDay == 3

-----------------------------------------------------------------------------
(* Python values *)

None == [t |-> "null"]
JNull == "null"
Dict(f) == [t |-> "dict", v |-> f]
List(s) == [t |-> "list", v |-> s]
EmptyDict == [t |-> "dict", v |-> <<>>]
EmptyList == [t |-> "list", v |-> <<>>]

Min(a, b) == IF a <= b THEN a ELSE b

\* s[:n]
Prefix(s, n) == SubSeq(s, 1, Min(n, Len(s)))

\* the dict f without the keys of D
Without(f, D) == [k \in (DOMAIN f) \ D |-> f[k]]

\* f"{x:.1f}" on the numbers the payloads carry
Fmt1f(x) ==
    CASE x = "21.46" -> "21.5"
      [] x = "19.0"  -> "19.0"
      [] x = "-3"    -> "-3.0"
      [] x = "18.04" -> "18.0"
      [] OTHER       -> x

\* str.title() on the descriptions the payloads carry
Title(s) ==
    CASE s = "clear sky"  -> "Clear Sky"
      [] s = "light rain" -> "Light Rain"
      [] OTHER            -> s

\* t[:5] on the times of day 'HH:MM:SS' the payloads carry
HHMM(t) ==
    CASE t = "00:00:00" -> "00:00"
      [] t = "03:00:00" -> "03:00"
      [] t = "06:00:00" -> "06:00"
      [] t = "09:00:00" -> "09:00"
      [] t = "12:00:00" -> "12:00"
      [] t = "15:00:00" -> "15:00"
      [] t = "18:00:00" -> "18:00"
      [] t = "21:00:00" -> "21:00"
      [] OTHER          -> t

-----------------------------------------------------------------------------
(* Outcomes of a formatter: the text it returns, the error text it returns *)
(* from its except KeyError clause, or the exception that leaves it.       *)

KeyErrorText(what, key) == [kind |-> "format_error", what |-> what, field |-> key]
Raises(exc) == [kind |-> "raise", exc |-> exc]

TempUnitFolded(units) ==
    IF units \in {"metric", "Metric", "METRIC"} THEN "C"
    ELSE IF units \in {"imperial", "Imperial"} THEN "F"
    ELSE "K"

\* lines 66-71 and 90-95
TempUnit(units) ==
    IF units = "metric" THEN "C"
    ELSE IF units = "imperial" THEN "F"
    ELSE "K"

\* dict.get(key, default)
Get(d, key, default) == IF key \in DOMAIN d THEN d[key] ELSE default

format_weather_data(data, units) ==
    IF data.t # "dict" THEN Raises("TypeError")
    ELSE LET d == data.v IN
    IF "name" \notin DOMAIN d THEN KeyErrorText("weather", "name")
    ELSE IF "sys" \notin DOMAIN d THEN KeyErrorText("weather", "sys")
    ELSE IF "country" \notin DOMAIN d.sys THEN KeyErrorText("weather", "country")
    ELSE IF "main" \notin DOMAIN d THEN KeyErrorText("weather", "main")
    ELSE IF "temp" \notin DOMAIN d.main THEN KeyErrorText("weather", "temp")
    ELSE IF "feels_like" \notin DOMAIN d.main THEN KeyErrorText("weather", "feels_like")
    ELSE IF "humidity" \notin DOMAIN d.main THEN KeyErrorText("weather", "humidity")
    ELSE IF "wind" \notin DOMAIN d THEN KeyErrorText("weather", "wind")
    ELSE IF "weather" \notin DOMAIN d THEN KeyErrorText("weather", "weather")
    ELSE IF Len(d.weather) = 0 THEN Raises("IndexError")
    ELSE IF "description" \notin DOMAIN d.weather[1]
        THEN KeyErrorText("weather", "description")
    ELSE IF d.main.temp = JNull \/ d.main.feels_like = JNull THEN Raises("TypeError")
    ELSE [kind       |-> "text",
          what       |-> "weather",
          location   |-> <<d.name, d.sys.country>>,
          temp       |-> Fmt1f(d.main.temp),
          temp_unit  |-> TempUnit(units),
          feels_like |-> Fmt1f(d.main.feels_like),
          feels_unit |-> TempUnit(units),
          conditions |-> Title(d.weather[1].description),
          humidity   |-> d.main.humidity,
          wind_speed |-> Get(d.wind, "speed", "0"),
          wind_dir   |-> Get(d.wind, "deg", "0")]

-----------------------------------------------------------------------------
(* format_forecast_data *)

\* lines 103-105: daily_forecasts, a dict in insertion order, as the sequence
\* of its (date, items) pairs
AddToDay(daily, date, item) ==
    IF \E k \in 1..Len(daily) : daily[k].date = date
    THEN [k \in 1..Len(daily) |->
            IF daily[k].date = date
            THEN [date |-> date, items |-> Append(daily[k].items, item)]
            ELSE daily[k]]
    ELSE Append(daily, [date |-> date, items |-> <<item>>])

RECURSIVE GroupByDate(_, _)
\* lines 100-105, every item carrying a dt_txt
GroupByDate(items, daily) ==
    IF items = <<>> THEN daily
    ELSE GroupByDate(Tail(items), AddToDay(daily, Head(items).dt_txt[1], Head(items)))

ShownLast(forecasts) ==
    SubSeq(forecasts, Len(forecasts) - Min(PerDay, Len(forecasts)) + 1, Len(forecasts))

\* line 109: forecasts[:3]
Shown(forecasts) == Prefix(forecasts, PerDay)

ConsideredAll(list) == list

\* line 101: data['list'][:15]
Considered(list) == Prefix(list, ForecastCap)

\* lines 110-113 on one entry: "ok", or the outcome that ends the formatter
LineFault(forecast) ==
    IF Len(forecast.dt_txt) < 2 THEN Raises("IndexError")
    ELSE IF "main" \notin DOMAIN forecast THEN KeyErrorText("forecast", "main")
    ELSE IF "temp" \notin DOMAIN forecast.main THEN KeyErrorText("forecast", "temp")
    ELSE IF "weather" \notin DOMAIN forecast THEN KeyErrorText("forecast", "weather")
    ELSE IF Len(forecast.weather) = 0 THEN Raises("IndexError")
    ELSE IF "description" \notin DOMAIN forecast.weather[1]
        THEN KeyErrorText("forecast", "description")
    ELSE IF forecast.main.temp = JNull THEN Raises("TypeError")
    ELSE [kind |-> "ok"]

\* line 113: one rendered line
Line(forecast, temp_unit) ==
    [time       |-> HHMM(forecast.dt_txt[2]),
     temp       |-> Fmt1f(forecast.main.temp),
     temp_unit  |-> temp_unit,
     conditions |-> Title(forecast.weather[1].description)]

RECURSIVE Flatten(_)
\* the entries rendered, in the order lines 107-113 reach them
Flatten(daily) ==
    IF daily = <<>> THEN <<>>
    ELSE Shown(Head(daily).items) \o Flatten(Tail(daily))

\* the first entry, in rendering order, on which lines 110-113 fail (0: none)
FirstFault(entries) ==
    IF \E k \in 1..Len(entries) : LineFault(entries[k]).kind # "ok"
    THEN CHOOSE k \in 1..Len(entries) :
            /\ LineFault(entries[k]).kind # "ok"
            /\ \A j \in 1..(k - 1) : LineFault(entries[j]).kind = "ok"
    ELSE 0

format_forecast_data(data, units) ==
    IF data.t # "dict" THEN Raises("TypeError")
    ELSE LET d == data.v IN
    IF "city" \notin DOMAIN d THEN KeyErrorText("forecast", "city")
    ELSE IF "name" \notin DOMAIN d.city THEN KeyErrorText("forecast", "name")
    ELSE IF "country" \notin DOMAIN d.city THEN KeyErrorText("forecast", "country")
    ELSE IF "list" \notin DOMAIN d THEN KeyErrorText("forecast", "list")
    ELSE LET items == Considered(d.list) IN
    IF \E k \in 1..Len(items) : "dt_txt" \notin DOMAIN items[k]
        THEN KeyErrorText("forecast", "dt_txt")
    ELSE LET daily == GroupByDate(items, <<>>)
             entries == Flatten(daily)
             bad == FirstFault(entries)
             temp_unit == TempUnit(units)
         IN
    IF bad # 0 THEN LineFault(entries[bad])
    ELSE [kind     |-> "text",
          what     |-> "forecast",
          location |-> <<d.city.name, d.city.country>>,
          days     |-> [k \in 1..Len(daily) |->
                          [date  |-> daily[k].date,
                           lines |-> [j \in 1..Len(Shown(daily[k].items)) |->
                                        Line(Shown(daily[k].items)[j], temp_unit)]]]]

-----------------------------------------------------------------------------
(* Provider payloads *)

WeatherDefects ==
    {"name", "sys", "country", "main", "temp", "feels_like", "humidity", "wind",
     "speed", "deg", "weather", "weather_empty", "description", "temp_null"}

\* a current-weather answer for the place `name`, damaged as D says: a key
\* named in D is absent, "weather_empty" empties the weather list and
\* "temp_null" makes main.temp null
WeatherPayload(name, D) ==
    Dict(Without(
        [name    |-> name,
         sys     |-> Without([country |-> "GB"], D),
         main    |-> Without([temp       |-> IF "temp_null" \in D THEN JNull ELSE "21.46",
                              feels_like |-> "19.0",
                              humidity   |-> "81"], D),
         wind    |-> Without([speed |-> "4.1", deg |-> "250"], D),
         weather |-> IF "weather_empty" \in D THEN <<>>
                     ELSE <<Without([description |-> "clear sky"], D)>>], D))

DefectSets == {D \in SUBSET WeatherDefects : Cardinality(D) <= MaxDefects}

WeatherInputs ==
    {WeatherPayload("London", D) : D \in DefectSets} \cup {List(<<"x">>)}

DD ==
    <<"01", "02", "03", "04", "05", "06", "07", "08", "09", "10", "11", "12", "13",
      "14", "15", "16", "17", "18", "19", "20", "21", "22", "23", "24", "25", "26",
      "27", "28", "29", "30", "31">>

\* the n-th calendar date from 2024-01-01 (n = 0 is that date)
DateStr(n) == IF n < 31 THEN "2024-01-" \o DD[n + 1] ELSE "2024-02-" \o DD[n - 30]

TimeStr ==
    <<"00:00:00", "03:00:00", "06:00:00", "09:00:00", "12:00:00", "15:00:00",
      "18:00:00", "21:00:00">>

Temps == <<"21.46", "19.0", "-3", "18.04">>

\* the forecast entry of the three-hour slot `slot` (slot 0 is 2024-01-01
\* 00:00:00), at position pos of its list
Entry(slot, pos) ==
    [dt_txt  |-> <<DateStr(slot \div 8), TimeStr[(slot % 8) + 1]>>,
     main    |-> [temp |-> Temps[(pos % 4) + 1]],
     weather |-> <<[description |-> IF pos % 2 = 0 THEN "clear sky" ELSE "light rain"]>>]

\* n entries from slot `start` on, `stride` slots apart (1: three-hourly)
Regular(start, stride, n) == [k \in 1..n |-> Entry(start + (k - 1) * stride, k)]

ItemDefects ==
    {"dt_txt", "nospace", "main", "temp", "temp_null", "weather", "weather_empty",
     "description"}

Damage(entry, kind) ==
    CASE kind = "dt_txt"        -> Without(entry, {"dt_txt"})
      [] kind = "nospace"       -> [entry EXCEPT !.dt_txt = <<entry.dt_txt[1]>>]
      [] kind = "main"          -> Without(entry, {"main"})
      [] kind = "temp"          -> [entry EXCEPT !.main = <<>>]
      [] kind = "temp_null"     -> [entry EXCEPT !.main = [temp |-> JNull]]
      [] kind = "weather"       -> Without(entry, {"weather"})
      [] kind = "weather_empty" -> [entry EXCEPT !.weather = <<>>]
      [] kind = "description"   -> [entry EXCEPT !.weather = << <<>> >>]

ThreeHourlyLists == {Regular(s, 1, n) : s \in 0..7, n \in 0..MaxEntries}

DailyLists == {Regular(s, 8, n) : s \in 0..7, n \in 0..MaxEntries}

ArbitrarySlots == {0, 1, 8, 9}

ArbitraryLists ==
    UNION {{[k \in 1..n |-> Entry(f[k], k)] : f \in [1..n -> ArbitrarySlots]} :
           n \in 0..MaxArbitrary}

DamagedLists ==
    {[k \in 1..n |-> IF k = p THEN Damage(Entry(s + k - 1, k), kind)
                     ELSE Entry(s + k - 1, k)] :
        s \in {0, 6}, n \in 1..MaxEntries, p \in 1..MaxEntries, kind \in ItemDefects}

ForecastPayload(name, list, D) ==
    Dict(Without([city |-> Without([name |-> name, country |-> "GB"], D),
                  list |-> list], D))

ForecastInputs ==
    {ForecastPayload("London", l, {}) :
        l \in ThreeHourlyLists \cup DailyLists \cup ArbitraryLists \cup DamagedLists}
    \cup {ForecastPayload("London", Regular(0, 1, 4), {k}) : k \in {"city", "name", "country", "list"}}
    \cup {List(<<"x">>)}

UnitsValues == {"metric", "imperial", "kelvin", "standard", "", "Metric", "IMPERIAL"}

-----------------------------------------------------------------------------
(* The formatters called on their own *)

NoCall == [fn |-> "none"]
NoOutcome == [kind |-> "none"]

CallFormatWeather ==
    /\ fin = NoCall
    /\ \E data \in WeatherInputs, units \in UnitsValues :
        /\ fin' = [fn |-> "format_weather_data", data |-> data, units |-> units]
        /\ fout' = format_weather_data(data, units)
    /\ UNCHANGED serverVars

CallFormatForecast ==
    /\ fin = NoCall
    /\ \E data \in ForecastInputs, units \in UnitsValues :
        /\ fin' = [fn |-> "format_forecast_data", data |-> data, units |-> units]
        /\ fout' = format_forecast_data(data, units)
    /\ UNCHANGED serverVars

-----------------------------------------------------------------------------
(* Module start-up: lines 16-24, the three @mcp.tool() decorators and the   *)
(* __main__ block                                                           *)

Str(s) == [t |-> "str", v |-> s]
Unbound == [t |-> "unbound"]

\* bool(x) of a Python value
Truthy(x) ==
    CASE x.t = "null" -> FALSE
      [] x.t = "str"  -> x.v # ""
      [] x.t = "dict" -> DOMAIN x.v # {}
      [] x.t = "list" -> Len(x.v) > 0
      [] OTHER        -> TRUE

\* what os.getenv("OPENWEATHER_API_KEY") may give once load_dotenv() has run
GetenvValues == {None, Str(""), Str("secret")}

KeyMissingIsNone(key) == key.t = "null"

\* line 23: not OPENWEATHER_API_KEY
KeyMissing(key) == ~Truthy(key)

ToolOrder == <<"get_current_weather", "get_weather_forecast", "get_weather_by_coordinates">>

ToolNames == {ToolOrder[k] : k \in 1..Len(ToolOrder)}

\* lines 16-22
ReadKey ==
    /\ bootpc = "start"
    /\ \E v \in GetenvValues : OPENWEATHER_API_KEY' = v
    /\ bootpc' = "check"
    /\ UNCHANGED <<tools, pc, call, params, conn, gets, sent, resp, ret, log, result,
                   fmtCalls, fin, fout>>

\* lines 23-24: the ValueError ends the module body
CheckKey ==
    /\ bootpc = "check"
    /\ bootpc' = IF KeyMissing(OPENWEATHER_API_KEY) THEN "halted" ELSE "decorate"
    /\ UNCHANGED <<OPENWEATHER_API_KEY, tools, pc, call, params, conn, gets, sent,
                   resp, ret, log, result, fmtCalls, fin, fout>>

\* lines 121, 142, 163, in the order of the module body
RegisterTool ==
    /\ bootpc = "decorate"
    /\ tools' = tools \cup {ToolOrder[Cardinality(tools) + 1]}
    /\ bootpc' = IF Cardinality(tools) + 1 = Len(ToolOrder) THEN "main" ELSE "decorate"
    /\ UNCHANGED <<OPENWEATHER_API_KEY, pc, call, params, conn, gets, sent, resp,
                   ret, log, result, fmtCalls, fin, fout>>

\* lines 211-225: uvicorn.run serves the application
Serve ==
    /\ bootpc = "main"
    /\ bootpc' = "serving"
    /\ UNCHANGED <<OPENWEATHER_API_KEY, tools, pc, call, params, conn, gets, sent,
                   resp, ret, log, result, fmtCalls, fin, fout>>

-----------------------------------------------------------------------------
(* Tool invocations.  A coroutine runs from one await to the next without   *)
(* interleaving; the awaits are the entry of `async with` (line 41), the    *)
(* GET (line 43) and the exit of `async with`.                              *)

Invocations == 1..MaxInFlight

NoArgs == [tool |-> "none"]
NoRequest == [endpoint |-> "none"]
NoResponse == [net |-> "none"]

Places ==
    {[location |-> "London", latitude |-> "51.5", longitude |-> "-0.1", units |-> "metric"],
     [location |-> "Paris", latitude |-> "48.9", longitude |-> "2.4", units |-> "imperial"]}

\* the tools/call requests a client may send
ToolCalls ==
    {[tool |-> t, location |-> pl.location, units |-> pl.units] :
        t \in {"get_current_weather", "get_weather_forecast"}, pl \in Places}
    \cup {[tool |-> "get_weather_by_coordinates", latitude |-> pl.latitude,
           longitude |-> pl.longitude, units |-> pl.units] : pl \in Places}

\* lines 129-132, 150-153, 172-176
BuildParams(c) ==
    IF c.tool = "get_weather_by_coordinates"
    THEN [lat |-> c.latitude, lon |-> c.longitude, units |-> c.units]
    ELSE [q |-> c.location, units |-> c.units]

\* the endpoint argument of lines 134, 155, 178
EndpointOf(c) ==
    CASE c.tool = "get_weather_forecast" -> "forecast"
      [] c.tool = "direct"               -> c.endpoint
      [] OTHER                           -> "weather"

ParamsRefShared(i) == 1

\* the dict object that `params = {...}` binds in invocation i: a fresh one
\* per call
ParamsRef(i) == i

WithAppidSetdefault(p, key) ==
    [k \in DOMAIN p \cup {"appid"} |->
        IF k \in DOMAIN p THEN p[k] ELSE key.v]

\* line 37: params["appid"] = OPENWEATHER_API_KEY
WithAppid(p, key) ==
    [k \in DOMAIN p \cup {"appid"} |-> IF k = "appid" THEN key.v ELSE p[k]]

\* the place the provider resolves a query to
PlaceName(p) ==
    IF "q" \in DOMAIN p THEN p.q
    ELSE IF "lat" \in DOMAIN p /\ p.lat = "48.9" THEN "Paris"
    ELSE "London"

\* the JSON a 2xx answer of kind `body` carries for the request req
ProviderBody(body, req) ==
    LET name == PlaceName(req.params) IN
    CASE body = "empty_dict" -> EmptyDict
      [] body = "empty_list" -> EmptyList
      [] body = "no_conditions" ->
            IF req.endpoint = "forecast"
            THEN ForecastPayload(name, <<Damage(Entry(0, 1), "weather_empty")>>, {})
            ELSE WeatherPayload(name, {"weather_empty"})
      [] OTHER ->
            IF req.endpoint = "forecast"
            THEN ForecastPayload(name, Regular(0, 1, 4), {})
            ELSE WeatherPayload(name, {})

\* how client.get may end: the network fails, or the provider answers
GetOutcomes ==
    {[net |-> "timeout"]}
    \cup {[net |-> "ok", status |-> 404, body |-> "city not found"]}
    \cup {[net |-> "ok", status |-> 200, body |-> b] :
            b \in {"good", "empty_dict", "empty_list", "no_conditions", "not_json"}}

\* response.raise_for_status() passes
IsSuccess(status) == status \in 200..299

FetchOutcomeNoRaise(o, req) ==
    IF o.net # "ok"
    THEN [path |-> "exception", ret |-> None,
          line |-> <<[text |-> "Request error", detail |-> o.net]>>]
    ELSE IF o.body = "not_json"
    THEN [path |-> "exception", ret |-> None,
          line |-> <<[text |-> "Request error", detail |-> "JSONDecodeError"]>>]
    ELSE [path |-> "success", ret |-> ProviderBody(o.body, req), line |-> <<>>]

\* lines 43-51 once the GET has ended as o: the branch taken, the value
\* returned and the line printed
FetchOutcome(o, req) ==
    IF o.net # "ok"
    THEN [path |-> "exception", ret |-> None,
          line |-> <<[text |-> "Request error", detail |-> o.net]>>]
    ELSE IF ~IsSuccess(o.status)
    THEN [path |-> "http_error", ret |-> None,
          line |-> <<[text |-> "HTTP error", status |-> o.status, body |-> o.body]>>]
    ELSE IF o.body = "not_json"
    THEN [path |-> "exception", ret |-> None,
          line |-> <<[text |-> "Request error", detail |-> "JSONDecodeError"]>>]
    ELSE [path |-> "success", ret |-> ProviderBody(o.body, req), line |-> <<>>]

NextPcAfterGetRetry(path, n) == IF path # "success" /\ n < 2 THEN "aenter" ELSE "aexit"

\* lines 45, 48, 51: every branch returns, none goes back to the GET
NextPcAfterGet(path, n) == "aexit"

ClientAfterBlockSuccessOnly(path) == IF path = "success" THEN "closed" ELSE "open"

\* line 41: `async with` closes the client however the block is left
ClientAfterBlock(path) == "closed"

NoDataIsNone(data) == data.t = "null"

\* lines 136, 157, 180: not data
NoData(data) == ~Truthy(data)

\* the text of lines 137, 158, 181
Unable(c) ==
    CASE c.tool = "get_current_weather" ->
            [kind |-> "unable", what |-> "weather", place |-> <<c.location>>]
      [] c.tool = "get_weather_forecast" ->
            [kind |-> "unable", what |-> "forecast", place |-> <<c.location>>]
      [] c.tool = "get_weather_by_coordinates" ->
            [kind |-> "unable", what |-> "weather", place |-> <<c.latitude, c.longitude>>]

\* lines 139, 160, 183
Format(c, data) ==
    IF c.tool = "get_weather_forecast" THEN format_forecast_data(data, c.units)
    ELSE format_weather_data(data, c.units)

\* a handler from its first line to the entry of `async with`:
\* lines 129-134 (150-155, 172-178) and 32-41
ToolCall(i, c) ==
    /\ bootpc = "serving"
    /\ c.tool \in tools
    /\ pc[i] = "idle"
    /\ call' = [call EXCEPT ![i] = c]
    /\ params' = [params EXCEPT
                    ![ParamsRef(i)] = WithAppid(BuildParams(c), OPENWEATHER_API_KEY)]
    /\ pc' = [pc EXCEPT ![i] = "aenter"]
    /\ UNCHANGED <<bootpc, OPENWEATHER_API_KEY, tools, conn, gets, sent, resp, ret,
                   log, result, fmtCalls, fin, fout>>

ParamInputs ==
    UNION {[K -> {"x"}] : K \in SUBSET {"q", "units", "appid"}}
    \cup {[q |-> "London", units |-> "metric", appid |-> "theirs"],
          [lat |-> "51.5", lon |-> "-0.1", appid |-> ""]}

\* make_openweather_request called on its own, to the entry of `async with`:
\* lines 32-41
DirectCall(i, endpoint, p) ==
    /\ bootpc = "imported"
    /\ pc[i] = "idle"
    /\ call' = [call EXCEPT ![i] = [tool |-> "direct", endpoint |-> endpoint, given |-> p]]
    /\ params' = [params EXCEPT ![ParamsRef(i)] = WithAppid(p, OPENWEATHER_API_KEY)]
    /\ pc' = [pc EXCEPT ![i] = "aenter"]
    /\ UNCHANGED <<bootpc, OPENWEATHER_API_KEY, tools, conn, gets, sent, resp, ret,
                   log, result, fmtCalls, fin, fout>>

\* the client is open and line 43 issues the GET
ClientEnter(i) ==
    /\ pc[i] = "aenter"
    /\ conn' = [conn EXCEPT ![i] = "open"]
    /\ sent' = [sent EXCEPT ![i] = [endpoint |-> EndpointOf(call[i]),
                                    params   |-> params[ParamsRef(i)]]]
    /\ gets' = [gets EXCEPT ![i] = @ + 1]
    /\ pc' = [pc EXCEPT ![i] = "await_get"]
    /\ UNCHANGED <<bootpc, OPENWEATHER_API_KEY, tools, call, params, resp, ret, log,
                   result, fmtCalls, fin, fout>>

\* the GET ends as o and lines 44-51 run to the exit of `async with`
GetCompletes(i, o) ==
    /\ pc[i] = "await_get"
    /\ LET f == FetchOutcome(o, sent[i]) IN
        /\ resp' = [resp EXCEPT ![i] = o]
        /\ ret' = [ret EXCEPT ![i] = f.ret]
        /\ log' = [log EXCEPT ![i] = @ \o f.line]
        /\ pc' = [pc EXCEPT ![i] = NextPcAfterGet(f.path, gets[i])]
    /\ UNCHANGED <<bootpc, OPENWEATHER_API_KEY, tools, call, params, conn, gets, sent,
                   result, fmtCalls, fin, fout>>

\* the client is released, the Fetcher returns and the handler runs to its
\* end: lines 136-139 (157-160, 180-183)
ClientExit(i) ==
    /\ pc[i] = "aexit"
    /\ conn' = [conn EXCEPT ![i] = ClientAfterBlock(FetchOutcome(resp[i], sent[i]).path)]
    /\ IF call[i].tool = "direct"
       THEN /\ result' = [result EXCEPT ![i] = [kind |-> "returned"]]
            /\ UNCHANGED fmtCalls
       ELSE IF NoData(ret[i])
       THEN /\ result' = [result EXCEPT ![i] = Unable(call[i])]
            /\ UNCHANGED fmtCalls
       ELSE /\ result' = [result EXCEPT ![i] = Format(call[i], ret[i])]
            /\ fmtCalls' = [fmtCalls EXCEPT ![i] = @ + 1]
    /\ pc' = [pc EXCEPT ![i] = "done"]
    /\ UNCHANGED <<bootpc, OPENWEATHER_API_KEY, tools, call, params, gets, sent, resp,
                   ret, log, fin, fout>>

\* the result has gone to the client; the invocation's objects are dropped
Deliver(i) ==
    /\ pc[i] = "done"
    /\ call[i].tool # "direct"
    /\ pc' = [pc EXCEPT ![i] = "idle"]
    /\ call' = [call EXCEPT ![i] = NoArgs]
    /\ params' = [params EXCEPT ![ParamsRef(i)] = <<>>]
    /\ conn' = [conn EXCEPT ![i] = "none"]
    /\ gets' = [gets EXCEPT ![i] = 0]
    /\ sent' = [sent EXCEPT ![i] = NoRequest]
    /\ resp' = [resp EXCEPT ![i] = NoResponse]
    /\ ret' = [ret EXCEPT ![i] = Unbound]
    /\ log' = [log EXCEPT ![i] = <<>>]
    /\ result' = [result EXCEPT ![i] = NoOutcome]
    /\ fmtCalls' = [fmtCalls EXCEPT ![i] = 0]
    /\ UNCHANGED <<bootpc, OPENWEATHER_API_KEY, tools, fin, fout>>

-----------------------------------------------------------------------------
(* Specifications *)

IdleServer ==
    /\ pc = [i \in Invocations |-> "idle"]
    /\ call = [i \in Invocations |-> NoArgs]
    /\ params = [i \in Invocations |-> <<>>]
    /\ conn = [i \in Invocations |-> "none"]
    /\ gets = [i \in Invocations |-> 0]
    /\ sent = [i \in Invocations |-> NoRequest]
    /\ resp = [i \in Invocations |-> NoResponse]
    /\ ret = [i \in Invocations |-> Unbound]
    /\ log = [i \in Invocations |-> <<>>]
    /\ result = [i \in Invocations |-> NoOutcome]
    /\ fmtCalls = [i \in Invocations |-> 0]
    /\ fin = NoCall
    /\ fout = NoOutcome

\* the interpreter is about to run the module body of main.py
Init ==
    /\ bootpc = "start"
    /\ OPENWEATHER_API_KEY = Unbound
    /\ tools = {}
    /\ IdleServer

Next ==
    \/ ReadKey
    \/ CheckKey
    \/ RegisterTool
    \/ Serve
    \/ \E i \in Invocations, c \in ToolCalls : ToolCall(i, c)
    \/ \E i \in Invocations : ClientEnter(i)
    \/ \E i \in Invocations, o \in GetOutcomes : GetCompletes(i, o)
    \/ \E i \in Invocations : ClientExit(i)
    \/ \E i \in Invocations : Deliver(i)

\* the server: start-up, then tool invocations interleaved at their awaits
Spec == Init /\ [][Next]_vars

\* main.py has been imported with a key in the environment
InitFetch ==
    /\ bootpc = "imported"
    /\ OPENWEATHER_API_KEY = Str("secret")
    /\ tools = ToolNames
    /\ IdleServer

NextFetch ==
    \/ \E endpoint \in {"weather", "forecast"}, p \in ParamInputs :
            DirectCall(1, endpoint, p)
    \/ ClientEnter(1)
    \/ \E o \in GetOutcomes : GetCompletes(1, o)
    \/ ClientExit(1)

\* one call of make_openweather_request with any params mapping
SpecFetch == InitFetch /\ [][NextFetch]_vars

InitFormat ==
    /\ bootpc = "imported"
    /\ OPENWEATHER_API_KEY = Str("secret")
    /\ tools = ToolNames
    /\ IdleServer

NextFormat == CallFormatWeather \/ CallFormatForecast

\* one call of a formatter with any payload and units
SpecFormat == InitFormat /\ [][NextFormat]_vars

-----------------------------------------------------------------------------
(* Properties *)

Returned(i) == pc[i] \in {"aexit", "done"}

HttpFailed(o) == o.net = "ok" /\ ~IsSuccess(o.status)

NetFailed(o) == o.net \notin {"ok", "none"}

ParseFailed(o) == o.net = "ok" /\ IsSuccess(o.status) /\ o.body = "not_json"

\* C1 as stated: a non-2xx answer makes the Fetcher fail with an UpstreamError
\* carrying status and body, a network failure or timeout with a
\* TransportError; the two kinds are never returned as one ordinary value.
C1_FailureKindsDistinguished ==
    \A i \in Invocations :
        Returned(i) =>
            /\ HttpFailed(resp[i]) => ret[i].t = "UpstreamError"
            /\ NetFailed(resp[i]) => ret[i].t = "TransportError"

\* C1 amended: on a non-2xx answer, on a network failure or timeout and on a
\* body that does not parse, the Fetcher returns None, the same value for
\* every kind of failure; the kinds differ only in the one line it prints,
\* "HTTP error" with status and body for a non-2xx answer and "Request error"
\* otherwise.  On a 2xx answer that parses it returns the parsed JSON and
\* prints nothing.
C1_FailuresReturnNone ==
    \A i \in Invocations :
        Returned(i) =>
            /\ HttpFailed(resp[i]) =>
                /\ ret[i] = None
                /\ log[i] = <<[text |-> "HTTP error", status |-> resp[i].status,
                               body |-> resp[i].body]>>
            /\ (NetFailed(resp[i]) \/ ParseFailed(resp[i])) =>
                /\ ret[i] = None
                /\ Len(log[i]) = 1
                /\ log[i][1].text = "Request error"
            /\ ~(HttpFailed(resp[i]) \/ NetFailed(resp[i]) \/ ParseFailed(resp[i])) =>
                /\ ret[i] = ProviderBody(resp[i].body, sent[i])
                /\ log[i] = <<>>

\* two invocations whose GETs failed in different ways hold the same value
C1_Witness ==
    \E i, j \in Invocations :
        /\ Returned(i) /\ Returned(j)
        /\ HttpFailed(resp[i]) /\ NetFailed(resp[j])
        /\ ret[i] = None /\ ret[j] = None

\* C2 as stated: whatever consumed field of the payload is absent or
\* malformed, a formatter ends by returning its format-error text naming the
\* field; no exception leaves it.
C2_OnlyFormatErrors ==
    (fin # NoCall /\ fin.data.t = "dict") => fout.kind \in {"text", "format_error"}

\* the entries format_forecast_data is to consider, and their dates
C3_Items == Prefix(fin.data.v.list, ForecastCap)

C3_DateAt(k) == C3_Items[k].dt_txt[1]

\* positions at which a date appears for the first time
C3_FirstPositions ==
    {k \in 1..Len(C3_Items) : \A j \in 1..(k - 1) : C3_DateAt(j) # C3_DateAt(k)}

\* the positions of the entries of date d that are to be rendered
C3_ToRender(d) ==
    LET P == {k \in 1..Len(C3_Items) : C3_DateAt(k) = d}
    IN {k \in P : Cardinality({j \in P : j < k}) < PerDay}

\* the n-th smallest member of the set S of numbers
C3_Nth(S, n) == CHOOSE x \in S : Cardinality({y \in S : y < x}) = n - 1

C3_ThreeHourly(list) == \E s \in 0..7 : list = Regular(s, 1, Len(list))

\* C3: format_forecast_data considers the first 15 entries of 'list' only,
\* makes one bucket per calendar date in the order the dates first appear,
\* and renders in each bucket the first 3 entries of that date, in input
\* order; 16 three-hourly entries give at most 5 buckets and the 16th entry
\* is not rendered.
C3_ForecastGrouping ==
    (fin.fn = "format_forecast_data" /\ fout.kind = "text") =>
        LET days == fout.days
            unit == TempUnit(fin.units)
        IN
        /\ Len(days) = Cardinality(C3_FirstPositions)
        /\ \A b \in 1..Len(days) :
            LET d == C3_DateAt(C3_Nth(C3_FirstPositions, b))
                R == C3_ToRender(d)
            IN
            /\ days[b].date = d
            /\ Len(days[b].lines) = Cardinality(R)
            /\ Len(days[b].lines) <= PerDay
            /\ \A j \in 1..Len(days[b].lines) :
                days[b].lines[j] = Line(C3_Items[C3_Nth(R, j)], unit)
        /\ \A a, b \in 1..Len(days) : a # b => days[a].date # days[b].date
        /\ (Len(fin.data.v.list) = 16 /\ C3_ThreeHourly(fin.data.v.list)) =>
            /\ Len(days) <= 5
            /\ \A b \in 1..Len(days) : \A j \in 1..Len(days[b].lines) :
                <<days[b].date, days[b].lines[j].time>> #
                    <<fin.data.v.list[16].dt_txt[1], HHMM(fin.data.v.list[16].dt_txt[2])>>

\* 16 three-hourly entries whose 16th is the first of its date have been
\* formatted: two buckets, the second with three lines
C3_Witness ==
    /\ fin.fn = "format_forecast_data"
    /\ fout.kind = "text"
    /\ fin.data.v.list = Regular(1, 1, 16)
    /\ Len(fout.days) = 2
    /\ Len(fout.days[2].lines) = 3

C8_Letter(units) ==
    CASE units = "metric"   -> "C"
      [] units = "imperial" -> "F"
      [] OTHER              -> "K"

\* C8: in a rendered text the unit letter is C for units 'metric', F for
\* 'imperial' and K for every other value; both formatters use this
\* mapping, and temperature and feels-like carry the same letter.
C8_UnitLetter ==
    /\ (fin.fn = "format_weather_data" /\ fout.kind = "text") =>
        /\ fout.temp_unit = C8_Letter(fin.units)
        /\ fout.feels_unit = fout.temp_unit
    /\ (fin.fn = "format_forecast_data" /\ fout.kind = "text") =>
        \A b \in 1..Len(fout.days) : \A j \in 1..Len(fout.days[b].lines) :
            fout.days[b].lines[j].temp_unit = C8_Letter(fin.units)

\* both formatters have rendered K for a differently-cased 'Metric'
C8_Witness ==
    /\ fin # NoCall
    /\ fin.units = "Metric"
    /\ fout.kind = "text"
    /\ \/ fin.fn = "format_weather_data" /\ fout.temp_unit = "K"
       \/ /\ fin.fn = "format_forecast_data"
          /\ Len(fout.days) > 0
          /\ fout.days[1].lines[1].temp_unit = "K"

Failed(o) == HttpFailed(o) \/ NetFailed(o) \/ ParseFailed(o)

\* C4: a tool invocation issues exactly one GET, whether it succeeds or
\* fails; a failed GET is printed once and reported once, as the handler's
\* 'Unable to fetch' result.
C4_OneGetNoRetry ==
    \A i \in Invocations :
        /\ gets[i] <= 1
        /\ pc[i] \in {"await_get", "aexit", "done"} => gets[i] = 1
        /\ (Returned(i) /\ Failed(resp[i])) => Len(log[i]) = 1
        /\ (pc[i] = "done" /\ Failed(resp[i])) => result[i] = Unable(call[i])

\* an invocation whose GET timed out has ended after one GET
C4_Witness ==
    \E i \in Invocations :
        /\ pc[i] = "done"
        /\ NetFailed(resp[i])
        /\ gets[i] = 1
        /\ result[i].kind = "unable"

\* C5: when make_openweather_request has returned to its caller, on
\* whichever path, the client it opened is closed.
C5_ConnectionReleased ==
    \A i \in Invocations :
        /\ pc[i] \in {"done", "idle"} => conn[i] # "open"
        /\ pc[i] = "done" => conn[i] = "closed"

\* the Fetcher has returned on the HTTP-error path, on the exception path
\* and on the success path
C5_Witness ==
    \E i, j \in Invocations :
        /\ pc[i] = "done" /\ pc[j] = "done"
        /\ HttpFailed(resp[i]) /\ conn[i] = "closed"
        /\ ParseFailed(resp[j]) /\ conn[j] = "closed"

\* the request invocation i issues when it runs alone
C6_OwnRequest(i) ==
    [endpoint |-> EndpointOf(call[i]),
     params   |-> [k \in DOMAIN BuildParams(call[i]) \cup {"appid"} |->
                     IF k = "appid" THEN OPENWEATHER_API_KEY.v
                     ELSE BuildParams(call[i])[k]]]

\* the result invocation i produces when it runs alone and its GET ends as
\* resp[i]
C6_Alone(i) ==
    LET f == FetchOutcome(resp[i], C6_OwnRequest(i)) IN
    IF f.ret \in {None, EmptyDict, EmptyList} THEN Unable(call[i])
    ELSE Format(call[i], f.ret)

\* C6: with several invocations in flight, each issues the request of its
\* own arguments and ends with the result it would have produced alone,
\* given the provider's answer to its own GET.
C6_Independent ==
    \A i \in Invocations :
        /\ pc[i] \in {"await_get", "aexit", "done"} => sent[i] = C6_OwnRequest(i)
        /\ pc[i] = "done" => result[i] = C6_Alone(i)

\* one invocation has rendered its text while another, for another place,
\* is between its awaits
C6_Witness ==
    \E i, j \in Invocations :
        /\ pc[i] = "done" /\ result[i].kind = "text"
        /\ pc[j] \in {"await_get", "aexit"}
        /\ call[i].units # call[j].units

C7_KeyAbsent ==
    \/ OPENWEATHER_API_KEY.t = "null"
    \/ OPENWEATHER_API_KEY.t = "str" /\ OPENWEATHER_API_KEY.v = ""

\* C7: with the API key unset or empty the process halts at line 24: no tool
\* is ever registered and no request is served; whenever a request is being
\* served the key is a non-empty string.
C7_NoServingWithoutKey ==
    /\ C7_KeyAbsent =>
        /\ bootpc \in {"check", "halted"}
        /\ tools = {}
        /\ \A i \in Invocations : pc[i] = "idle"
    /\ (bootpc = "serving" \/ \E i \in Invocations : pc[i] # "idle") =>
        /\ OPENWEATHER_API_KEY.t = "str"
        /\ OPENWEATHER_API_KEY.v # ""

\* the process has halted on an empty key
C7_Witness ==
    /\ bootpc = "halted"
    /\ OPENWEATHER_API_KEY = Str("")
    /\ tools = {}

C9_NonEmpty(data) ==
    \/ data.t = "dict" /\ DOMAIN data.v # {}
    \/ data.t = "list" /\ Len(data.v) > 0

\* C9: a handler calls its formatter exactly when the Fetcher returned a
\* non-empty payload; on None and on an empty {} or [] of a 2xx answer it
\* returns the 'Unable to fetch' text naming the location or coordinates
\* asked for, without calling the formatter.
C9_FormatterIffPayload ==
    \A i \in Invocations :
        pc[i] = "done" =>
            /\ fmtCalls[i] = (IF C9_NonEmpty(ret[i]) THEN 1 ELSE 0)
            /\ C9_NonEmpty(ret[i]) => result[i] = Format(call[i], ret[i])
            /\ ~C9_NonEmpty(ret[i]) =>
                /\ result[i].kind = "unable"
                /\ result[i].place =
                    (IF call[i].tool = "get_weather_by_coordinates"
                     THEN <<call[i].latitude, call[i].longitude>>
                     ELSE <<call[i].location>>)

\* a 2xx answer carrying {} and a failed GET have ended in the same text
C9_Witness ==
    \E i, j \in Invocations :
        /\ pc[i] = "done" /\ pc[j] = "done"
        /\ resp[i].net = "ok" /\ resp[i].status = 200 /\ ret[i] = EmptyDict
        /\ HttpFailed(resp[j])
        /\ call[i] = call[j]
        /\ result[i] = result[j]
        /\ fmtCalls[i] = 0

\* C10: make_openweather_request leaves in the caller's params the key
\* 'appid' set to the configured API key, whatever 'appid' the caller gave,
\* and every other key as it was, on every exit path; the GET carries
\* exactly those parameters.
C10_OnlyAppidSet ==
    \A i \in Invocations :
        call[i].tool = "direct" =>
            LET p == params[ParamsRef(i)]
                given == call[i].given
            IN
            /\ DOMAIN p = DOMAIN given \cup {"appid"}
            /\ p["appid"] = OPENWEATHER_API_KEY.v
            /\ \A k \in DOMAIN given \ {"appid"} : p[k] = given[k]
            /\ pc[i] \in {"await_get", "aexit", "done"} => sent[i].params = p

\* a call that gave its own 'appid' has returned on the HTTP-error path
C10_Witness ==
    \E i \in Invocations :
        /\ call[i].tool = "direct"
        /\ pc[i] = "done"
        /\ HttpFailed(resp[i])
        /\ "appid" \in DOMAIN call[i].given
        /\ call[i].given["appid"] = "theirs"
        /\ params[ParamsRef(i)]["appid"] = "secret"

====
